---------------------------- MODULE Spec2Model ----------------------------
(***************************************************************************)
(* tfvenv: the provider plugin cache clean-up (cleanupCmd and the          *)
(* functions it calls) of the main package.                                *)
(*                                                                         *)
(* Strings are sequences of tokens.  The tokens "_", "v", ".", "/", ","    *)
(* and "-" stand for themselves; every other token is a run of characters  *)
(* holding none of them and not starting with "v" (a word, a number, the   *)
(* fixed prefix "terraform-provider-").  With that, the Go string          *)
(* functions the code uses (HasPrefix, TrimPrefix, TrimSuffix, Split,      *)
(* filepath.Ext) act on a token sequence as they act on its characters.    *)
(***************************************************************************)
EXTENDS Integers, Sequences, FiniteSets, TLC

(***************************************************************************)
(* Bounds of the model.                                                    *)
(***************************************************************************)
MaxCacheFiles == 3
MaxUndeletable == 1
MaxUnreadable == 1
MaxTfFiles == 2
MaxRuns == 2
MaxVersions == 4
MaxProcs == 2

(***************************************************************************)
(* Go's strings and path/filepath functions, on token sequences.           *)
(***************************************************************************)
HasPrefix(s, p) == Len(s) >= Len(p) /\ SubSeq(s, 1, Len(p)) = p

HasSuffix(s, p) == Len(s) >= Len(p) /\ SubSeq(s, Len(s) - Len(p) + 1, Len(s)) = p

TrimPrefix(s, p) == IF HasPrefix(s, p) THEN SubSeq(s, Len(p) + 1, Len(s)) ELSE s

TrimSuffix(s, p) == IF HasSuffix(s, p) THEN SubSeq(s, 1, Len(s) - Len(p)) ELSE s

\* strings.Index: the first place sep occurs in s, 0 when it does not.
Index(s, sep) ==
    LET at == {i \in 1..(Len(s) - Len(sep) + 1) : SubSeq(s, i, i + Len(sep) - 1) = sep}
    IN  IF at = {} THEN 0 ELSE CHOOSE i \in at : \A j \in at : i <= j

\* strings.Split(s, sep), sep not empty: the pieces between the occurrences.
RECURSIVE Split(_, _)
Split(s, sep) ==
    LET i == Index(s, sep)
    IN  IF i = 0 THEN <<s>>
        ELSE <<SubSeq(s, 1, i - 1)>> \o Split(SubSeq(s, i + Len(sep), Len(s)), sep)

\* filepath.Ext: the suffix from the last "." of the name, "" without one.
Ext(s) ==
    LET dots == {i \in 1..Len(s) : s[i] = "."}
    IN  IF dots = {} THEN <<>>
        ELSE SubSeq(s, CHOOSE i \in dots : \A j \in dots : j <= i, Len(s))

\* fmt.Sprintf("%s_%s", a, b)
Sprintf(a, b) == a \o <<"_">> \o b

ProviderPrefix == <<"terraform-provider-">>
ZipExt == <<".", "zip">>


(***************************************************************************)
(* github.com/hashicorp/go-version, as resolveProviderVersion and          *)
(* getProviderAvailableVersions use it.  A version string is an optional   *)
(* "v", then numbers separated by "."; the parsed version keeps the        *)
(* original text, its segments padded with zeros to three, and the number  *)
(* of segments written (si).                                               *)
(***************************************************************************)
NumTokens == <<"0", "1", "2", "3", "4", "5", "6", "7", "8", "9", "70", "74">>
NumValues == <<0, 1, 2, 3, 4, 5, 6, 7, 8, 9, 70, 74>>

IsNum(t) == \E i \in 1..Len(NumTokens) : NumTokens[i] = t

\* strconv.ParseInt of a number token
Atoi(t) == NumValues[CHOOSE i \in 1..Len(NumTokens) : NumTokens[i] = t]

\* version.NewVersion succeeds
ValidVersion(s) ==
    LET body == TrimPrefix(s, <<"v">>)
    IN  /\ Len(body) % 2 = 1
        /\ \A i \in 1..Len(body) : IF i % 2 = 1 THEN IsNum(body[i]) ELSE body[i] = "."

\* version.NewVersion of a valid string
NewVersion(s) ==
    LET body == TrimPrefix(s, <<"v">>)
        n == (Len(body) + 1) \div 2
        m == IF n < 3 THEN 3 ELSE n
    IN  [original |-> s,
         segments |-> [i \in 1..m |-> IF i <= n THEN Atoi(body[2 * i - 1]) ELSE 0],
         si |-> n]

\* Version.Compare: -1, 0 or 1, a missing segment counting as zero
Compare(a, b) ==
    LET n == IF Len(a.segments) > Len(b.segments) THEN Len(a.segments) ELSE Len(b.segments)
        sa(i) == IF i <= Len(a.segments) THEN a.segments[i] ELSE 0
        sb(i) == IF i <= Len(b.segments) THEN b.segments[i] ELSE 0
        diff == {i \in 1..n : sa(i) # sb(i)}
    IN  IF diff = {} THEN 0
        ELSE LET k == CHOOSE i \in diff : \A j \in diff : i <= j
             IN  IF sa(k) < sb(k) THEN -1 ELSE 1

LessThan(a, b) == Compare(a, b) < 0

ConstraintOps == {"=", "!=", ">", "<", ">=", "<=", "~>"}

\* one comma-separated part of a constraint: an optional operator, a version
PartOp(part) == IF Len(part) > 0 /\ part[1] \in ConstraintOps THEN part[1] ELSE "="
PartVersion(part) ==
    IF Len(part) > 0 /\ part[1] \in ConstraintOps THEN SubSeq(part, 2, Len(part)) ELSE part

\* version.NewConstraint succeeds
ValidConstraint(c) ==
    \A i \in 1..Len(Split(c, <<",">>)) : ValidVersion(PartVersion(Split(c, <<",">>)[i]))

\* version.NewConstraint of a valid string
NewConstraint(c) ==
    LET parts == Split(c, <<",">>)
    IN  [i \in 1..Len(parts) |->
            [op |-> PartOp(parts[i]), check |-> NewVersion(PartVersion(parts[i]))]]

\* constraintPessimistic ("~>")
ConstraintPessimistic(v, c) ==
    /\ ~LessThan(v, c)
    /\ Len(c.segments) <= Len(v.segments)
    /\ \A i \in 1..(c.si - 1) : v.segments[i] = c.segments[i]
    /\ c.segments[Len(c.segments)] <= v.segments[Len(c.segments)]

ConstraintHolds(op, v, c) ==
    CASE op = "="  -> Compare(v, c) = 0
      [] op = "!=" -> Compare(v, c) # 0
      [] op = ">"  -> Compare(v, c) = 1
      [] op = "<"  -> Compare(v, c) = -1
      [] op = ">=" -> Compare(v, c) >= 0
      [] op = "<=" -> Compare(v, c) <= 0
      [] op = "~>" -> ConstraintPessimistic(v, c)

\* Constraints.Check: every part holds
Check(cs, v) == \A i \in 1..Len(cs) : ConstraintHolds(cs[i].op, v, cs[i].check)

(***************************************************************************)
(* sort.Sort(sort.Reverse(version.Collection(vs))).  For the lengths used  *)
(* here (under 7) sort.Sort is its insertion sort: element i moves left    *)
(* while Less(j, j-1), and Reverse makes Less(j, j-1) mean vs[j-1] < vs[j].*)
(***************************************************************************)
RECURSIVE InsertLeft(_, _)
InsertLeft(vs, j) ==
    IF j > 1 /\ LessThan(vs[j - 1], vs[j])
    THEN InsertLeft([vs EXCEPT ![j - 1] = vs[j], ![j] = vs[j - 1]], j - 1)
    ELSE vs

RECURSIVE InsertionSortFrom(_, _)
InsertionSortFrom(vs, i) ==
    IF i > Len(vs) THEN vs ELSE InsertionSortFrom(InsertLeft(vs, i), i + 1)

SortReverse(vs) == InsertionSortFrom(vs, 2)

(***************************************************************************)
(* The registry: for each provider of the hashicorp namespace the answer   *)
(* of GET /v1/providers/hashicorp/<name>/versions: a status and the        *)
(* version strings of the body.  A provider it does not know is a 404.     *)
(***************************************************************************)
StatusOK == 200

Response(reg, provider) ==
    IF provider \in DOMAIN reg THEN reg[provider]
    ELSE [status |-> 404, versions |-> <<>>]

\* the loop over the registry's strings ended by the first invalid one
RECURSIVE ParseVersionsBreak(_)
ParseVersionsBreak(strs) ==
    IF strs = <<>> THEN <<>>
    ELSE IF ValidVersion(Head(strs))
         THEN <<NewVersion(Head(strs))>> \o ParseVersionsBreak(Tail(strs))
         ELSE <<>>

\* getProviderAvailableVersions: the loop over pvResp.Versions; a string
\* version.NewVersion rejects is logged and passed over
RECURSIVE ParseVersions(_)
ParseVersions(strs) ==
    IF strs = <<>> THEN <<>>
    ELSE IF ValidVersion(Head(strs))
         THEN <<NewVersion(Head(strs))>> \o ParseVersions(Tail(strs))
         ELSE ParseVersions(Tail(strs))

Supported(publisher) == publisher = <<"hashicorp">>

ResponseOK(resp) == resp.status = StatusOK

\* getProviderAvailableVersions: [err, versions]
getProviderAvailableVersions(reg, source) ==
    LET parts == Split(source, <<"/">>)
    IN  IF Len(parts) # 2
        THEN [err |-> "UnsupportedSourceFormat", versions |-> <<>>]
        ELSE IF ~Supported(parts[1])
        THEN [err |-> "UnsupportedPublisher", versions |-> <<>>]
        ELSE IF ~ResponseOK(Response(reg, parts[2]))
        THEN [err |-> "RegistryError", versions |-> <<>>]
        ELSE [err |-> "", versions |-> ParseVersions(Response(reg, parts[2]).versions)]

\* a registry asked before the source is looked at
RequestsUnchecked(source) == <<source>>

\* getProviderAvailableVersions: the http.Get calls it issues (the publisher
\* and the provider of each URL), none when it returns before line 965
Requests(source) ==
    LET parts == Split(source, <<"/">>)
    IN  IF Len(parts) # 2 THEN <<>>
        ELSE IF ~Supported(parts[1]) THEN <<>>
        ELSE <<source>>

\* the loop of resolveProviderVersion over the sorted versions
RECURSIVE FirstMatch(_, _)
FirstMatch(cs, vs) ==
    IF vs = <<>> THEN [err |-> "NoMatchingVersion", version |-> <<>>]
    ELSE IF Check(cs, Head(vs)) THEN [err |-> "", version |-> Head(vs).original]
    ELSE FirstMatch(cs, Tail(vs))

\* the versions left in the registry's order
Unsorted(vs) == vs

Sorted(vs) == SortReverse(vs)

\* resolveProviderVersion: [err, version]
resolveProviderVersion(reg, source, constraint) ==
    LET got == getProviderAvailableVersions(reg, source)
    IN  IF got.err # "" THEN [err |-> got.err, version |-> <<>>]
        ELSE IF ~ValidConstraint(constraint)
        THEN [err |-> "InvalidConstraint", version |-> <<>>]
        ELSE FirstMatch(NewConstraint(constraint), Sorted(got.versions))

\* extractProviderShortName
extractProviderShortName(source) ==
    LET parts == Split(source, <<"/">>)
    IN  IF Len(parts) # 2 THEN source ELSE parts[2]

(***************************************************************************)
(* The plugin cache: the files that may lie under pluginCacheDir, in the   *)
(* order filepath.Walk meets them (each directory's entries by name).      *)
(* An artifact named by the convention                                     *)
(* terraform-provider-<name>_v<version>_<os>_<arch>[.<ext>] carries the    *)
(* name and the version it was named from.                                 *)
(***************************************************************************)
V3700 == <<"3", ".", "70", ".", "0">>
V3740 == <<"3", ".", "74", ".", "0">>
V451 == <<"4", ".", "5", ".", "1">>

ArtifactName(name, version, os, arch, ext) ==
    ProviderPrefix \o name \o <<"_", "v">> \o version \o <<"_", os, "_", arch>> \o ext

Artifact(dir, name, version, os, arch, ext) ==
    [dir |-> dir, filename |-> ArtifactName(name, version, os, arch, ext),
     conventional |-> TRUE, name |-> name, version |-> version]

Other(dir, filename) ==
    [dir |-> dir, filename |-> filename, conventional |-> FALSE,
     name |-> <<>>, version |-> <<>>]

CacheTree ==
    << Artifact("a", <<"aws">>, V3700, "linux", "amd64", ZipExt),
       Artifact("a", <<"aws">>, V3740, "linux", "amd64", ZipExt),
       Artifact("b", <<"aws">>, V3740, "darwin", "arm64", ZipExt),
       Artifact("b", <<"aws">>, V3740, "linux", "amd64", ZipExt),
       Artifact("c", <<"aws">>, V3740, "linux", "amd64", <<>>),
       Other("", <<"random-file", ".", "txt">>),
       Other("", ProviderPrefix \o <<"noversion">>),
       Other("", <<"unrelated", "_", "v", "1", ".", "0", ".", "zip">>) >>

Files == 1..Len(CacheTree)

\* pluginCacheDir when it is a regular file: the walk meets the root alone
RootFile == Other("", <<"plugin-cache">>)

(***************************************************************************)
(* The file names' parsers of the two passes.                              *)
(***************************************************************************)
\* every file taken for a provider plugin
IsAnyFile(filename) == TRUE

\* strings.HasPrefix(filename, "terraform-provider-")
IsProviderFile(filename) == HasPrefix(filename, ProviderPrefix)

\* cleanDuplicateProviders: parts := strings.Split(filename, "_v")
PassAParts(filename) == Split(filename, <<"_", "v">>)

PassAParsable(filename) == IsProviderFile(filename) /\ Len(PassAParts(filename)) = 2

PassAKey(filename) ==
    Sprintf(TrimPrefix(PassAParts(filename)[1], ProviderPrefix),
            TrimSuffix(PassAParts(filename)[2], ZipExt))

\* cleanUnusedProviders: the name without its extension, split on "_"
PassBParts(filename) == Split(TrimSuffix(filename, Ext(filename)), <<"_">>)

PassBParsable(filename) == IsProviderFile(filename) /\ Len(PassBParts(filename)) >= 2

PassBKey(filename) ==
    Sprintf(TrimPrefix(PassBParts(filename)[1], ProviderPrefix),
            TrimPrefix(PassBParts(filename)[2], <<"v">>))

(***************************************************************************)
(* The environments' configuration.  A .tf file is either malformed or a   *)
(* list of terraform blocks, each a list of required_providers blocks,     *)
(* each a list of attributes: a string (value) or an object with a source  *)
(* and a version.                                                          *)
(***************************************************************************)
Str(name, value) ==
    [name |-> name, isObject |-> FALSE, value |-> value, source |-> <<>>, version |-> <<>>]

Obj(name, source, version) ==
    [name |-> name, isObject |-> TRUE, value |-> <<>>, source |-> source, version |-> version]

HashicorpAws == <<"hashicorp", "/", "aws">>
Pessimistic374 == <<"~>", "3", ".", "74">>
Range4 == <<">=", "4", ".", "0", ",", "<", "5", ".", "0">>

Flat(source, version) == << Str("source", source), Str("version", version) >>

TfNames == <<"bad.tf", "main.tf", "multi.tf", "std.tf">>

TfContent(name) ==
    CASE name = "bad.tf"  -> [parses |-> FALSE, terraform |-> <<>>]
      [] name = "main.tf" ->
           [parses |-> TRUE, terraform |-> << << Flat(HashicorpAws, Pessimistic374) >> >>]
      [] name = "multi.tf" ->
           [parses |-> TRUE, terraform |-> << <<
               Flat(<<"hashicorp", "/", "google">>, <<"~>", "1", ".", "0">>),
               Flat(<<"aws">>, Pessimistic374),
               Flat(<<"acme", "/", "aws">>, Pessimistic374),
               Flat(HashicorpAws, <<"latest">>),
               Flat(HashicorpAws, <<">", "9", ".", "0">>),
               << Str("source", HashicorpAws) >>,
               Flat(HashicorpAws, Range4) >> >>]
      [] name = "std.tf" ->
           [parses |-> TRUE,
            terraform |-> << << << Obj("aws", HashicorpAws, Pessimistic374) >> >> >>]

EnvNames == <<"dev", "prod">>

\* getEnvironments: configPath := filepath.Join(envDir, "config")
ConfigPath == <<"config">>

\* the directory of an environment under the config directory
ConfigDirOf(env) == ConfigPath \o <<env>>

\* collectUsedProviders: filepath.Join(baseEnvDir, env, "config", env)
EnvConfigDir(env) == <<env, "config", env>>

MainRegistry ==
    (<<"aws">> :> [status |-> 200, versions |-> <<V3700, <<"beta">>, V3740, V451>>])
    @@ (<<"google">> :> [status |-> 500, versions |-> <<>>])

(***************************************************************************)
(* The state.                                                              *)
(*   cacheKind, cache, undeletable: what lies at pluginCacheDir (nothing,  *)
(*     a regular file, a directory), the files of CacheTree that exist,    *)
(*     and those os.Remove fails on;                                       *)
(*   unreadable: the files filepath.Walk's os.Lstat fails on;              *)
(*   configRoot, configDirs, tfFiles: whether <base>/config can be read,   *)
(*     its subdirectories, and the .tf files ([dir, name]) on disk;        *)
(*   registry: the registry's answers;                                     *)
(*   pc, run, viaCmd: the place of the current run, the number of runs     *)
(*     started, and whether they go through cleanupCmd;                    *)
(*   todo: the files the current walk has still to meet;                   *)
(*   uniqueProviders, usedProviders: the maps of the two passes;           *)
(*   work: the required_providers blocks collectUsedProviders has still    *)
(*     to go through;                                                      *)
(*   removedA, removedB, failedA, failedB, requirements, passBErr,         *)
(*     printed: what the current run did (the files each pass removed or   *)
(*     failed to remove, the (source, constraint) pairs handed to          *)
(*     resolveProviderVersion, the error of Pass B, the lines printed);    *)
(*   removedBefore: the files the runs before the current one removed;     *)
(*   query, result, requests: the arguments and the result of a call of    *)
(*     resolveProviderVersion on its own, and the registry queries it      *)
(*     issued;                                                             *)
(*   procs, lockFile: the commands (cleanup, lock, unlock) that run at the *)
(*     same time as separate processes, each with its place and its own    *)
(*     maps, and whether the environment's .lock file exists.              *)
(***************************************************************************)
VARIABLES cacheKind, cache, undeletable, unreadable, configRoot, configDirs, tfFiles, registry,
          pc, run, viaCmd, todo, uniqueProviders, usedProviders, work,
          removedA, removedB, failedA, failedB, requirements, passBErr, printed,
          removedBefore, query, result, requests, procs, lockFile

vars == <<cacheKind, cache, undeletable, unreadable, configRoot, configDirs, tfFiles, registry,
          pc, run, viaCmd, todo, uniqueProviders, usedProviders, work,
          removedA, removedB, failedA, failedB, requirements, passBErr, printed,
          removedBefore, query, result, requests, procs, lockFile>>

disk == <<cacheKind, configRoot, configDirs, tfFiles, registry>>
alone == <<query, result, requests, procs, lockFile>>

FileAt(f) == IF f = 0 THEN RootFile ELSE CacheTree[f]

\* fileExists: os.Stat finds the path and it is not a directory
fileExists(kind) == kind = "file"

\* a walk that stops after the first file it meets
WalkFirst(kind, files) ==
    IF kind = "file" THEN <<0>>
    ELSE LET all == SelectSeq([i \in 1..Len(CacheTree) |-> i], LAMBDA i : i \in files)
         IN  IF all = <<>> THEN <<>> ELSE <<Head(all)>>

\* filepath.Walk's files, in its order: the root itself when it is a file
WalkList(kind, files) ==
    IF kind = "file" THEN <<0>>
    ELSE SelectSeq([i \in 1..Len(CacheTree) |-> i], LAMBDA i : i \in files)

RECURSIVE Flatten(_)
Flatten(ss) == IF ss = <<>> THEN <<>> ELSE Head(ss) \o Flatten(Tail(ss))

\* filepath.Glob(filepath.Join(dir, "*.tf")): the names, sorted
Glob(fs, dir) == SelectSeq(TfNames, LAMBDA n : [dir |-> dir, name |-> n] \in fs)

\* getEnvironments: the subdirectories of the config directory, by name
getEnvironments(dirs) == SelectSeq(EnvNames, LAMBDA e : e \in dirs)

BlockOf(ref) == TfContent(ref.file).terraform[ref.t][ref.r]

AttrNames(block) == {block[i].name : i \in 1..Len(block)}

AttrOf(block, name) == block[CHOOSE i \in 1..Len(block) : block[i].name = name]

\* rpBlock.Body.Content with the schema {source, version}: an attribute of
\* another name is an error, and the block is passed over
SchemaAttributes == {"source", "version"}
ContentOK(block) == AttrNames(block) \subseteq SchemaAttributes

\* the directory collectUsedProviders globs for an environment
GlobDir(env) == EnvConfigDir(env)

\* the required_providers blocks of one file whose attributes are iterated
FileBlocks(env, file) ==
    LET c == TfContent(file)
    IN  IF ~c.parses THEN <<>>
        ELSE Flatten([t \in 1..Len(c.terraform) |->
                SelectSeq([r \in 1..Len(c.terraform[t]) |->
                              [env |-> env, file |-> file, t |-> t, r |-> r]],
                          LAMBDA ref : ContentOK(BlockOf(ref)) /\ BlockOf(ref) # <<>>)])

\* the blocks of the .tf files of one directory, read for an environment
DirBlocks(fs, env, dir) ==
    LET files == Glob(fs, dir)
    IN  Flatten([i \in 1..Len(files) |-> FileBlocks(env, files[i])])

EnvBlocks(fs, env) == DirBlocks(fs, env, GlobDir(env))

\* the loops of collectUsedProviders ended by the first file that does not parse
AllBlocksToParseError(fs, envs) ==
    LET files == Flatten([i \in 1..Len(envs) |->
                    [j \in 1..Len(Glob(fs, GlobDir(envs[i]))) |->
                        [env |-> envs[i], file |-> Glob(fs, GlobDir(envs[i]))[j]]]])
        bad == {i \in 1..Len(files) : ~TfContent(files[i].file).parses}
        last == IF bad = {} THEN Len(files)
                ELSE (CHOOSE i \in bad : \A j \in bad : i <= j) - 1
    IN  Flatten([i \in 1..last |-> FileBlocks(files[i].env, files[i].file)])

\* the loop over the environments ended by the first one without a .tf file
AllBlocksToEmptyEnvironment(fs, envs) ==
    LET empty == {i \in 1..Len(envs) : Glob(fs, GlobDir(envs[i])) = <<>>}
        last == IF empty = {} THEN Len(envs)
                ELSE (CHOOSE i \in empty : \A j \in empty : i <= j) - 1
    IN  Flatten([i \in 1..last |-> EnvBlocks(fs, envs[i])])

\* collectUsedProviders' loops over environments, files and blocks
AllBlocks(fs, envs) == Flatten([i \in 1..Len(envs) |-> EnvBlocks(fs, envs[i])])

(***************************************************************************)
(* The initial states: a cache of at most MaxCacheFiles files; a base      *)
(* directory with at most MaxTfFiles .tf files, each in an environment's   *)
(* directory under config or in the directory collectUsedProviders globs.  *)
(* Whether os.Remove fails on a file is settled when it is first tried, on *)
(* at most MaxUndeletable files, and stays so (undeletable).               *)
(***************************************************************************)
RECURSIVE SubsetsUpTo(_, _)
SubsetsUpTo(S, k) ==
    IF k = 0 THEN {{}}
    ELSE LET smaller == SubsetsUpTo(S, k - 1)
         IN  smaller \cup {T \cup {x} : T \in smaller, x \in S}

EnvSet == {EnvNames[i] : i \in 1..Len(EnvNames)}
TfNameSet == {TfNames[i] : i \in 1..Len(TfNames)}

\* The files of config/<env> are never opened: one name stands for them all.
TfPaths(dirs) ==
    {[dir |-> EnvConfigDir(e), name |-> n] : e \in dirs, n \in TfNameSet}
    \cup {[dir |-> ConfigDirOf(e), name |-> "main.tf"] : e \in dirs}

NoQuery == [source |-> <<>>, constraint |-> <<>>]
NoResult == [err |-> "", version |-> <<>>]

RunInit ==
    /\ pc = "idle"
    /\ run = 0
    /\ viaCmd = FALSE
    /\ todo = <<>>
    /\ uniqueProviders = {}
    /\ usedProviders = {}
    /\ work = <<>>
    /\ removedA = {}
    /\ removedB = {}
    /\ failedA = {}
    /\ failedB = {}
    /\ requirements = {}
    /\ passBErr = ""
    /\ printed = {}
    /\ removedBefore = {}

Init ==
    /\ registry = MainRegistry
    /\ cacheKind \in {"missing", "file", "dir"}
    /\ cache \in (IF cacheKind = "dir" THEN SubsetsUpTo(Files, MaxCacheFiles) ELSE {{}})
    /\ undeletable = {}
    /\ unreadable = {}
    /\ configRoot \in {"ok", "missing", "unreadable"}
    /\ configDirs \in (IF configRoot = "ok" THEN SUBSET EnvSet ELSE {{}})
    /\ tfFiles \in SubsetsUpTo(TfPaths(configDirs), MaxTfFiles)
    /\ RunInit
    /\ query = NoQuery
    /\ result = NoResult
    /\ requests = <<>>
    /\ procs = <<>>
    /\ lockFile = FALSE

(***************************************************************************)
(* cleanupCmd and the two passes.                                          *)
(***************************************************************************)
StartRun ==
    /\ run' = run + 1
    /\ uniqueProviders' = {}
    /\ usedProviders' = {}
    /\ work' = <<>>
    /\ removedA' = {}
    /\ removedB' = {}
    /\ failedA' = {}
    /\ failedB' = {}
    /\ requirements' = {}
    /\ passBErr' = ""
    /\ removedBefore' = removedBefore \cup removedA \cup removedB
    /\ UNCHANGED <<cache, disk, undeletable, unreadable, alone>>

\* cleanupCmd's Run, to the call of cleanDuplicateProviders
CleanupCmd ==
    /\ pc \in {"idle", "done"}
    /\ run < MaxRuns
    /\ run = 0 \/ viaCmd
    /\ viaCmd' = TRUE
    /\ IF fileExists(cacheKind)
       THEN /\ pc' = "passA"
            /\ todo' = WalkList(cacheKind, cache)
            /\ printed' = {}
       ELSE /\ pc' = "done"
            /\ todo' = <<>>
            /\ printed' = {"Plugin cache directory does not exist."}
    /\ StartRun

\* the two passes called in cleanupCmd's order on a cache that is a directory
CleanupPasses ==
    /\ pc \in {"idle", "done"}
    /\ run < MaxRuns
    /\ run = 0 \/ ~viaCmd
    /\ cacheKind = "dir"
    /\ viaCmd' = FALSE
    /\ pc' = "passA"
    /\ todo' = WalkList(cacheKind, cache)
    /\ printed' = {}
    /\ StartRun

\* os.Remove(path): whether it may succeed, whether it may fail
MayRemove(f, locked) == f \notin locked
MayFail(f, locked) == f \in locked \/ Cardinality(locked) < MaxUndeletable

\* a file renamed to the last name of the tree instead of removed
MoveFile(files, f) == (files \ {f}) \cup {Len(CacheTree)}

\* os.Remove(path) succeeding: the files left
RemoveFile(files, f) == files \ {f}

\* os.Remove(path) and the lines after it: the file goes, or the failure is
\* logged; either way the callback returns nil
Remove(f, removed, failed) ==
    \/ /\ MayRemove(f, undeletable)
       /\ cache' = RemoveFile(cache, f)
       /\ removed' = removed \cup {f}
       /\ UNCHANGED <<failed, undeletable>>
    \/ /\ MayFail(f, undeletable)
       /\ undeletable' = undeletable \cup {f}
       /\ failed' = failed \cup {f}
       /\ UNCHANGED <<cache, removed>>

\* a walk ended by the first os.Remove that fails
WalkUnlessFailed(files, failed) ==
    IF Head(files) \in failed THEN <<>> ELSE Tail(files)

\* the walk after the callback returned nil on the head of files, whether or
\* not os.Remove failed on it (failed: the files it has failed on)
WalkOn(files, failed) == Tail(files)

\* a duplicate removed only when no environment has a configuration file
IsDuplicateUnconfigured(key, unique) == key \in unique /\ tfFiles = {}

\* every file taken for a duplicate
IsDuplicateAlways(key, unique) == TRUE

\* cleanDuplicateProviders: if uniqueProviders[key]
IsDuplicate(key, unique) == key \in unique

\* filepath.Walk: os.Lstat of the next file: whether it may succeed, whether
\* it may fail (the callback is then called with the error, and returns it)
MayStat(f, lost) == f \notin lost
MayNotStat(f, lost) == f \in lost \/ Cardinality(lost) < MaxUnreadable

\* cleanDuplicateProviders: the walk's callback on the next file
DuplicateVisit ==
    /\ pc = "passA"
    /\ todo # <<>>
    /\ MayStat(Head(todo), unreadable)
    /\ LET f == Head(todo)
           filename == FileAt(f).filename
       IN  IF ~PassAParsable(filename)
           THEN UNCHANGED <<cache, undeletable, uniqueProviders, removedA, failedA>>
           ELSE IF IsDuplicate(PassAKey(filename), uniqueProviders)
           THEN /\ Remove(f, removedA, failedA)
                /\ UNCHANGED uniqueProviders
           ELSE /\ uniqueProviders' = uniqueProviders \cup {PassAKey(filename)}
                /\ UNCHANGED <<cache, undeletable, removedA, failedA>>
    /\ todo' = WalkOn(todo, failedA')
    /\ UNCHANGED <<disk, alone, pc, run, viaCmd, usedProviders, work, unreadable,
                   removedB, failedB, requirements, passBErr, printed, removedBefore>>

\* cleanDuplicateProviders: the callback returns the walk's error, the pass
\* returns it, and cleanupCmd prints it and calls os.Exit(1)
DuplicateError ==
    /\ pc = "passA"
    /\ todo # <<>>
    /\ MayNotStat(Head(todo), unreadable)
    /\ unreadable' = unreadable \cup {Head(todo)}
    /\ todo' = <<>>
    /\ pc' = "done"
    /\ printed' = {"Error cleaning duplicate providers"}
    /\ UNCHANGED <<cache, undeletable, disk, alone, run, viaCmd, uniqueProviders,
                   usedProviders, work, removedA, removedB, failedA, failedB,
                   requirements, passBErr, removedBefore>>

\* a walk that may return with files left to meet
WalkLeft(files) == TRUE

\* filepath.Walk returns nil when it has met every file
WalkDone(files) == files = <<>>

\* cleanDuplicateProviders returns nil; cleanupCmd calls cleanUnusedProviders
DuplicateReturn ==
    /\ pc = "passA"
    /\ WalkDone(todo)
    /\ pc' = "passB"
    /\ UNCHANGED <<cache, undeletable, unreadable, disk, alone, run, viaCmd, todo, uniqueProviders, usedProviders,
                   work, removedA, removedB, failedA, failedB, requirements,
                   passBErr, printed, removedBefore>>

\* a config directory read as empty when it cannot be read
ReadDirNeverFails(root) == FALSE

\* getEnvironments: os.ReadDir(configPath) returns an error
ReadDirFails(root) == root # "ok"

\* cleanUnusedProviders: len(envs) == 0
NoEnvironments(envs) == Len(envs) = 0

\* cleanUnusedProviders: getEnvironments, and the return when there is none
UnusedEnumerate ==
    /\ pc = "passB"
    /\ IF ReadDirFails(configRoot)
       THEN /\ passBErr' = "failed to list environments"
            /\ pc' = "report"
            /\ UNCHANGED work
       ELSE IF NoEnvironments(getEnvironments(configDirs))
       THEN /\ pc' = "report"
            /\ UNCHANGED <<passBErr, work>>
       ELSE /\ pc' = "collect"
            /\ work' = AllBlocks(tfFiles, getEnvironments(configDirs))
            /\ UNCHANGED passBErr
    /\ UNCHANGED <<cache, undeletable, unreadable, disk, alone, run, viaCmd, todo, uniqueProviders, usedProviders,
                   removedA, removedB, failedA, failedB, requirements, printed, removedBefore>>

\* collectUsedProviders: what one turn of the loop over a block's attributes
\* adds to usedProviders
Resolved(reg, source, constraint) ==
    LET res == resolveProviderVersion(reg, source, constraint)
    IN  IF res.err # "" THEN {}
        ELSE {Sprintf(extractProviderShortName(source), res.version)}

\* a block without "version" resolved against any version
BlockRequirementsAnyVersion(block) ==
    IF "version" \notin AttrNames(block)
    THEN {<<AttrOf(block, a).value, <<">=", "0">> >> : a \in AttrNames(block)}
    ELSE {<<AttrOf(block, a).value, AttrOf(block, "version").value>> : a \in AttrNames(block)}

\* collectUsedProviders: the (source, constraint) pairs the loop over a block's
\* attributes hands to resolveProviderVersion: each attribute's value with the
\* value of the attribute "version", none when there is no "version"
BlockRequirements(block) ==
    IF "version" \notin AttrNames(block) THEN {}
    ELSE {<<AttrOf(block, a).value, AttrOf(block, "version").value>> : a \in AttrNames(block)}

BlockKeys(reg, block) ==
    UNION {Resolved(reg, req[1], req[2]) : req \in BlockRequirements(block)}

\* a failed resolution returning from collectUsedProviders instead of continuing
AfterBlockReturn(reg, blocks) ==
    IF \E req \in BlockRequirements(BlockOf(Head(blocks))) :
            resolveProviderVersion(reg, req[1], req[2]).err # ""
    THEN <<>>
    ELSE Tail(blocks)

\* collectUsedProviders: after a block, whatever failed in it (each failure is
\* logged and followed by continue), the loops go on with the next block
AfterBlock(reg, blocks) == Tail(blocks)

\* collectUsedProviders: the loop over rpContent.Attributes of the next block.
\* The map's order is not fixed; each turn only adds to usedProviders, so every
\* order ends in the same state.
CollectBlock ==
    /\ pc = "collect"
    /\ work # <<>>
    /\ requirements' = requirements \cup BlockRequirements(BlockOf(Head(work)))
    /\ usedProviders' = usedProviders \cup BlockKeys(registry, BlockOf(Head(work)))
    /\ work' = AfterBlock(registry, work)
    /\ UNCHANGED <<cache, undeletable, unreadable, disk, alone, pc, run, viaCmd, todo, uniqueProviders,
                   removedA, removedB, failedA, failedB, passBErr, printed, removedBefore>>

\* the walk started whatever usedProviders holds
NoProvidersUnchecked(used) == FALSE

\* cleanUnusedProviders: len(usedProviders) == 0
NoProviders(used) == used = {}

\* collectUsedProviders returns; cleanUnusedProviders returns or starts its walk
CollectReturn ==
    /\ pc = "collect"
    /\ work = <<>>
    /\ IF NoProviders(usedProviders)
       THEN /\ pc' = "report"
            /\ UNCHANGED todo
       ELSE /\ pc' = "walkB"
            /\ todo' = WalkList(cacheKind, cache)
    /\ UNCHANGED <<cache, undeletable, unreadable, disk, alone, run, viaCmd, uniqueProviders, usedProviders, work,
                   removedA, removedB, failedA, failedB, requirements,
                   passBErr, printed, removedBefore>>

\* the test without its negation
IsUsed(key, used) == key \in used

\* cleanUnusedProviders: if !usedProviders[key]
IsUnused(key, used) == key \notin used

\* cleanUnusedProviders: the walk's callback on the next file
UnusedVisit ==
    /\ pc = "walkB"
    /\ todo # <<>>
    /\ MayStat(Head(todo), unreadable)
    /\ LET f == Head(todo)
           filename == FileAt(f).filename
       IN  IF PassBParsable(filename) /\ IsUnused(PassBKey(filename), usedProviders)
           THEN Remove(f, removedB, failedB)
           ELSE UNCHANGED <<cache, undeletable, removedB, failedB>>
    /\ todo' = WalkOn(todo, failedB')
    /\ UNCHANGED <<disk, alone, pc, run, viaCmd, uniqueProviders, usedProviders, work,
                   unreadable, removedA, failedA, requirements, passBErr, printed,
                   removedBefore>>

\* cleanUnusedProviders: the callback returns the walk's error and the pass
\* returns it
UnusedError ==
    /\ pc = "walkB"
    /\ todo # <<>>
    /\ MayNotStat(Head(todo), unreadable)
    /\ unreadable' = unreadable \cup {Head(todo)}
    /\ todo' = <<>>
    /\ pc' = "report"
    /\ passBErr' = "error cleaning plugin cache"
    /\ UNCHANGED <<cache, undeletable, disk, alone, run, viaCmd, uniqueProviders,
                   usedProviders, work, removedA, removedB, failedA, failedB,
                   requirements, printed, removedBefore>>

\* cleanUnusedProviders returns nil after its walk
UnusedReturn ==
    /\ pc = "walkB"
    /\ todo = <<>>
    /\ pc' = "report"
    /\ UNCHANGED <<cache, undeletable, unreadable, disk, alone, run, viaCmd, todo, uniqueProviders, usedProviders,
                   work, removedA, removedB, failedA, failedB, requirements,
                   passBErr, printed, removedBefore>>

\* cleanupCmd after cleanUnusedProviders: the error, if any, and the last line
CleanupReport ==
    /\ pc = "report"
    /\ pc' = "done"
    /\ printed' = (IF passBErr # "" THEN {"Error cleaning unused providers"} ELSE {})
                    \cup {"Cleanup completed successfully."}
    /\ UNCHANGED <<cache, undeletable, unreadable, disk, alone, run, viaCmd, todo, uniqueProviders, usedProviders,
                   work, removedA, removedB, failedA, failedB, requirements,
                   passBErr, removedBefore>>

\* the counts in the message a pass ends with, given the files it removed and
\* those it failed to remove: cleanDuplicateProviders returns nil without a
\* message, and cleanUnusedProviders logs "Cleanup of unused providers completed
\* successfully."; neither message carries a count
Summary(pass, removed, failed) == <<>>

\* the exit status of the cleanup command, from the lines it printed: 1 after
\* os.Exit(1), which follows the error of cleanDuplicateProviders alone, 0 when
\* Run returns
ExitStatus(lines) == IF "Error cleaning duplicate providers" \in lines THEN 1 ELSE 0

Next ==
    \/ CleanupCmd
    \/ CleanupPasses
    \/ DuplicateVisit
    \/ DuplicateError
    \/ DuplicateReturn
    \/ UnusedEnumerate
    \/ CollectBlock
    \/ CollectReturn
    \/ UnusedVisit
    \/ UnusedError
    \/ UnusedReturn
    \/ CleanupReport

Spec == Init /\ [][Next]_vars

(***************************************************************************)
(* resolveProviderVersion on its own: a registry answer of at most         *)
(* MaxVersions version strings, a source and a constraint, and one call.   *)
(***************************************************************************)
V390 == <<"3", ".", "9", ".", "0">>
V420 == <<"4", ".", "2", ".", "0">>
V500 == <<"5", ".", "0", ".", "0">>

VersionStrings == {V390, V420, V451, <<"v", "4", ".", "5", ".", "1">>, V500, <<"beta">>}

Constraints == {Range4, <<"~>", "4", ".", "2">>, <<">", "9", ".", "0">>, <<"latest">>}

RECURSIVE SeqsUpTo(_, _)
SeqsUpTo(S, k) ==
    IF k = 0 THEN {<<>>}
    ELSE LET shorter == SeqsUpTo(S, k - 1)
         IN  shorter \cup {Append(q, x) : q \in shorter, x \in S}

Calls ==
    {[source |-> HashicorpAws, status |-> 200],
     [source |-> HashicorpAws, status |-> 500],
     [source |-> <<"acme", "/", "aws">>, status |-> 200],
     [source |-> <<"aws">>, status |-> 200],
     [source |-> <<"registry", "/", "hashicorp", "/", "aws">>, status |-> 200]}

InitResolve ==
    /\ \E call \in Calls, list \in SeqsUpTo(VersionStrings, MaxVersions), c \in Constraints :
          /\ registry = (<<"aws">> :> [status |-> call.status, versions |-> list])
          /\ query = [source |-> call.source, constraint |-> c]
    /\ result = NoResult
    /\ requests = <<>>
    /\ procs = <<>>
    /\ lockFile = FALSE
    /\ cacheKind = "missing"
    /\ cache = {}
    /\ undeletable = {}
    /\ unreadable = {}
    /\ configRoot = "unreadable"
    /\ configDirs = {}
    /\ tfFiles = {}
    /\ RunInit

ResolveCall ==
    /\ pc = "idle"
    /\ pc' = "returned"
    /\ result' = resolveProviderVersion(registry, query.source, query.constraint)
    /\ requests' = Requests(query.source)
    /\ UNCHANGED <<cache, undeletable, unreadable, disk, query, run, viaCmd, todo, uniqueProviders,
                   usedProviders, work, removedA, removedB, failedA, failedB,
                   requirements, passBErr, printed, removedBefore, procs, lockFile>>

NextResolve == ResolveCall

SpecResolve == InitResolve /\ [][NextResolve]_vars

(***************************************************************************)
(* Commands run at the same time.  MaxProcs processes each run one command *)
(* (cleanup, lock or unlock) on the same environment and the same cache,   *)
(* or the two passes of cleanup called without cleanupCmd's test of the    *)
(* cache path ("passes"); their system calls interleave.                   *)
(* filepath.Walk reads the names of a                                      *)
(* directory when it enters it, then calls os.Lstat on each name and hands *)
(* the file to the callback: a file another process removed in between is  *)
(* an error of the walk (Lstat) or of os.Remove.                           *)
(***************************************************************************)
Procs == 1..MaxProcs

Commands == {"cleanup", "passes", "lock", "unlock"}

\* the state of a process that has not started its command
NewProc(cmd) ==
    [cmd |-> cmd, pc |-> "start", todo |-> <<>>, stat |-> FALSE,
     unique |-> {}, used |-> {}, removed |-> {}, out |-> {}]

DirItem(dir) == [isDir |-> TRUE, dir |-> dir, file |-> 0]
FileItem(f) == [isDir |-> FALSE, dir |-> FileAt(f).dir, file |-> f]

CacheDirs == <<"a", "b", "c">>

RECURSIVE Reverse(_)
Reverse(q) == IF q = <<>> THEN <<>> ELSE Append(Reverse(Tail(q)), Head(q))

\* the second process reading every directory backwards
WalkOrderReversed(p, names) == IF p = 2 THEN Reverse(names) ELSE names

\* filepath.Walk: the names of a directory, sorted, whatever the process
WalkOrder(p, names) == names

\* filepath.Walk(pluginCacheDir): the root when it is a file, else the names of
\* the root directory
WalkRoot(p, kind, files) ==
    IF kind = "file" THEN <<FileItem(0)>>
    ELSE WalkOrder(p, [i \in 1..Len(CacheDirs) |-> DirItem(CacheDirs[i])]
                      \o [i \in 1..Len(WalkList(kind, {f \in files : FileAt(f).dir = ""})) |->
                            FileItem(WalkList(kind, {f \in files : FileAt(f).dir = ""})[i])])

\* filepath.Walk entering a directory: the names it holds at that time
ReadDirNames(p, dir, files) ==
    WalkOrder(p, [i \in 1..Len(WalkList("dir", {f \in files : FileAt(f).dir = dir})) |->
                    FileItem(WalkList("dir", {f \in files : FileAt(f).dir = dir})[i])])

\* os.Lstat(path): the file is there (the root always is)
Lstat(f, files) == f = 0 \/ f \in files

\* collectUsedProviders over the environments of the base directory
CollectAll(reg, fs, envs) ==
    LET blocks == AllBlocks(fs, envs)
    IN  UNION {BlockKeys(reg, BlockOf(blocks[i])) : i \in 1..Len(blocks)}

\* the variables of a command run alone
sequential == <<undeletable, unreadable, disk, query, result, requests, pc, run, viaCmd,
                todo, uniqueProviders, usedProviders, work, removedA, removedB,
                failedA, failedB, requirements, passBErr, printed, removedBefore>>

InitConcurrent ==
    /\ registry = MainRegistry
    /\ cacheKind \in {"file", "dir"}
    /\ cache \in (IF cacheKind = "dir" THEN SubsetsUpTo(Files, MaxCacheFiles) ELSE {{}})
    /\ undeletable = {}
    /\ unreadable = {}
    /\ configRoot = "ok"
    /\ configDirs = {"dev"}
    /\ tfFiles \in SUBSET {[dir |-> EnvConfigDir("dev"), name |-> "main.tf"],
                           [dir |-> EnvConfigDir("dev"), name |-> "multi.tf"]}
    /\ RunInit
    /\ query = NoQuery
    /\ result = NoResult
    /\ requests = <<>>
    /\ procs \in [Procs -> {NewProc(c) : c \in Commands}]
    /\ lockFile \in BOOLEAN

\* cleanupCmd's Run, to the call of cleanDuplicateProviders
ConcurrentCleanup ==
    \E p \in Procs :
        /\ procs[p].cmd \in {"cleanup", "passes"}
        /\ procs[p].pc = "start"
        /\ procs' = [procs EXCEPT ![p] =
              IF procs[p].cmd = "passes" \/ fileExists(cacheKind)
              THEN [@ EXCEPT !.pc = "passA", !.todo = WalkRoot(p, cacheKind, cache)]
              ELSE [@ EXCEPT !.pc = "done",
                             !.out = {"Plugin cache directory does not exist."}]]
        /\ UNCHANGED <<cache, lockFile, sequential>>

\* filepath.Walk enters the next directory
ConcurrentEnter ==
    \E p \in Procs :
        /\ procs[p].pc \in {"passA", "walkB"}
        /\ procs[p].todo # <<>>
        /\ Head(procs[p].todo).isDir
        /\ procs' = [procs EXCEPT ![p].todo =
              ReadDirNames(p, Head(procs[p].todo).dir, cache) \o Tail(procs[p].todo)]
        /\ UNCHANGED <<cache, lockFile, sequential>>

\* filepath.Walk calls os.Lstat on the next name; on an error the callback
\* returns it, the pass returns it, and cleanupCmd exits (Pass A) or prints the
\* error and the last line (Pass B)
ConcurrentStat ==
    \E p \in Procs :
        /\ procs[p].pc \in {"passA", "walkB"}
        /\ procs[p].todo # <<>>
        /\ ~Head(procs[p].todo).isDir
        /\ ~procs[p].stat
        /\ procs' = [procs EXCEPT ![p] =
              IF Lstat(Head(procs[p].todo).file, cache)
              THEN [@ EXCEPT !.stat = TRUE]
              ELSE IF procs[p].pc = "passA"
              THEN [@ EXCEPT !.pc = "done", !.todo = <<>>,
                             !.out = {"Error cleaning duplicate providers"}]
              ELSE [@ EXCEPT !.pc = "done", !.todo = <<>>,
                             !.out = {"Error cleaning unused providers",
                                      "Cleanup completed successfully."}]]
        /\ UNCHANGED <<cache, lockFile, sequential>>

\* os.Remove(path) by process p: the file goes if it is still there, else the
\* failure is logged
ConcurrentRemove(p, f) ==
    IF f \in cache
    THEN /\ cache' = RemoveFile(cache, f)
         /\ procs' = [procs EXCEPT ![p].removed = @ \cup {f},
                                   ![p].todo = Tail(@), ![p].stat = FALSE]
    ELSE /\ procs' = [procs EXCEPT ![p].todo = Tail(@), ![p].stat = FALSE]
         /\ UNCHANGED cache

\* cleanDuplicateProviders: the walk's callback
ConcurrentDuplicateVisit ==
    \E p \in Procs :
        /\ procs[p].pc = "passA"
        /\ procs[p].stat
        /\ LET f == Head(procs[p].todo).file
               filename == FileAt(f).filename
           IN  IF ~PassAParsable(filename)
               THEN /\ procs' = [procs EXCEPT ![p].todo = Tail(@), ![p].stat = FALSE]
                    /\ UNCHANGED cache
               ELSE IF IsDuplicate(PassAKey(filename), procs[p].unique)
               THEN ConcurrentRemove(p, f)
               ELSE /\ procs' = [procs EXCEPT ![p].unique = @ \cup {PassAKey(filename)},
                                              ![p].todo = Tail(@), ![p].stat = FALSE]
                    /\ UNCHANGED cache
        /\ UNCHANGED <<lockFile, sequential>>

\* cleanDuplicateProviders returns nil
ConcurrentDuplicateReturn ==
    \E p \in Procs :
        /\ procs[p].pc = "passA"
        /\ WalkDone(procs[p].todo)
        /\ procs' = [procs EXCEPT ![p].pc = "passB"]
        /\ UNCHANGED <<cache, lockFile, sequential>>

\* cleanUnusedProviders to the start of its walk: getEnvironments and
\* collectUsedProviders (neither reads the cache)
ConcurrentCollect ==
    \E p \in Procs :
        /\ procs[p].pc = "passB"
        /\ LET envs == getEnvironments(configDirs)
               used == CollectAll(registry, tfFiles, envs)
           IN  procs' = [procs EXCEPT ![p] =
                  IF ReadDirFails(configRoot)
                  THEN [@ EXCEPT !.pc = "done",
                                 !.out = {"Error cleaning unused providers",
                                          "Cleanup completed successfully."}]
                  ELSE IF NoEnvironments(envs) \/ NoProviders(used)
                  THEN [@ EXCEPT !.pc = "done", !.used = used,
                                 !.out = {"Cleanup completed successfully."}]
                  ELSE [@ EXCEPT !.pc = "walkB", !.used = used,
                                 !.todo = WalkRoot(p, cacheKind, cache)]]
        /\ UNCHANGED <<cache, lockFile, sequential>>

\* cleanUnusedProviders: the walk's callback
ConcurrentUnusedVisit ==
    \E p \in Procs :
        /\ procs[p].pc = "walkB"
        /\ procs[p].stat
        /\ LET f == Head(procs[p].todo).file
               filename == FileAt(f).filename
           IN  IF PassBParsable(filename) /\ IsUnused(PassBKey(filename), procs[p].used)
               THEN ConcurrentRemove(p, f)
               ELSE /\ procs' = [procs EXCEPT ![p].todo = Tail(@), ![p].stat = FALSE]
                    /\ UNCHANGED cache
        /\ UNCHANGED <<lockFile, sequential>>

\* cleanUnusedProviders returns nil; cleanupCmd prints its last line
ConcurrentUnusedReturn ==
    \E p \in Procs :
        /\ procs[p].pc = "walkB"
        /\ WalkDone(procs[p].todo)
        /\ procs' = [procs EXCEPT ![p].pc = "done",
                                  ![p].out = {"Cleanup completed successfully."}]
        /\ UNCHANGED <<cache, lockFile, sequential>>

\* lockCmd: the test of the lock file
LockCheck ==
    \E p \in Procs :
        /\ procs[p].cmd = "lock"
        /\ procs[p].pc = "start"
        /\ procs' = [procs EXCEPT ![p] =
              IF fileExists(IF lockFile THEN "file" ELSE "missing")
              THEN [@ EXCEPT !.pc = "done", !.out = {"Environment is already locked."}]
              ELSE [@ EXCEPT !.pc = "create"]]
        /\ UNCHANGED <<cache, lockFile, sequential>>

\* lockCmd: os.Create(lockPath), which creates the file or truncates the one
\* that is there, or fails
LockCreate ==
    \E p \in Procs :
        /\ procs[p].cmd = "lock"
        /\ procs[p].pc = "create"
        /\ \/ /\ lockFile' = TRUE
              /\ procs' = [procs EXCEPT ![p].pc = "done",
                                        ![p].out = {"Environment locked successfully."}]
           \/ /\ UNCHANGED lockFile
              /\ procs' = [procs EXCEPT ![p].pc = "done",
                                        ![p].out = {"Error locking environment"}]
        /\ UNCHANGED <<cache, sequential>>

\* unlockCmd: the test of the lock file
UnlockCheck ==
    \E p \in Procs :
        /\ procs[p].cmd = "unlock"
        /\ procs[p].pc = "start"
        /\ procs' = [procs EXCEPT ![p] =
              IF ~fileExists(IF lockFile THEN "file" ELSE "missing")
              THEN [@ EXCEPT !.pc = "done", !.out = {"Environment is not locked."}]
              ELSE [@ EXCEPT !.pc = "remove"]]
        /\ UNCHANGED <<cache, lockFile, sequential>>

\* unlockCmd: os.Remove(lockPath), which fails when the file is gone
UnlockRemove ==
    \E p \in Procs :
        /\ procs[p].cmd = "unlock"
        /\ procs[p].pc = "remove"
        /\ lockFile' = FALSE
        /\ procs' = [procs EXCEPT ![p].pc = "done",
                                  ![p].out = IF lockFile
                                             THEN {"Environment unlocked successfully."}
                                             ELSE {"Error unlocking environment"}]
        /\ UNCHANGED <<cache, sequential>>

NextConcurrent ==
    \/ ConcurrentCleanup
    \/ ConcurrentEnter
    \/ ConcurrentStat
    \/ ConcurrentDuplicateVisit
    \/ ConcurrentDuplicateReturn
    \/ ConcurrentCollect
    \/ ConcurrentUnusedVisit
    \/ ConcurrentUnusedReturn
    \/ LockCheck
    \/ LockCreate
    \/ UnlockCheck
    \/ UnlockRemove

SpecConcurrent == InitConcurrent /\ [][NextConcurrent]_vars

(***************************************************************************)
(* The properties.                                                         *)
(***************************************************************************)
Range(q) == {q[i] : i \in 1..Len(q)}

Min(S) == CHOOSE x \in S : \A y \in S : x <= y

\* the name_version key of an artifact named by the convention
ConvKey(f) == Sprintf(FileAt(f).name, FileAt(f).version)

Key3700 == Sprintf(<<"aws">>, V3700)
Key3740 == Sprintf(<<"aws">>, V3740)
Key451 == Sprintf(<<"aws">>, V451)

\* the environments of the current run
Envs == getEnvironments(configDirs)

\* C1: Pass B deletes no conventionally named cache file whose name_version
\* key is in the UsedSet of the run, with or without an extension.
C1_UsedNeverDeleted ==
    \A f \in removedB : FileAt(f).conventional => ConvKey(f) \notin usedProviders

\* C2: with no environment, or with no requirement resolved (an empty
\* UsedSet), Pass B never starts its walk of the cache and deletes nothing.
C2_EmptyUsedSetDeletesNothing ==
    (Envs = <<>> \/ usedProviders = {})
        => (pc # "walkB" /\ removedB = {} /\ failedB = {})

C2_Witness ==
    /\ pc = "report"
    /\ ~viaCmd
    /\ Envs # <<>>
    /\ tfFiles # {}
    /\ usedProviders = {}
    /\ \E f \in cache : PassBParsable(FileAt(f).filename)

\* C3: after Pass A without a deletion failure, of the N >= 2 cache files of
\* one (name, version), whatever their os/arch, extension or directory, exactly
\* one remains: the first of the walk.
C3_OneCopyRemains ==
    (pc = "passB" /\ failedA = {}) =>
        \A f \in cache \cup removedA :
            LET same == {g \in cache \cup removedA :
                            FileAt(g).conventional /\ ConvKey(g) = ConvKey(f)}
            IN  (FileAt(f).conventional /\ Cardinality(same) >= 2)
                    => cache \cap same = {Min(same)}

\* C4: every environment the Enumerator returns has the providers declared in
\* its config/<env> directory, the one the Enumerator listed, resolved into the
\* UsedSet.
C4_ReadsListedDirectory ==
    (pc \in {"walkB", "report"} /\ passBErr = "") =>
        \A e \in Range(Envs) :
            \A ref \in Range(DirBlocks(tfFiles, e, ConfigDirOf(e))) :
                BlockKeys(registry, BlockOf(ref)) \subseteq usedProviders

\* C5: every provider declared as <label> = { source = ..., version = ... } in a
\* required_providers block of a file the extractor reads gives one requirement
\* (source, constraint).
C5_OneRequirementPerProvider ==
    pc \in {"walkB", "report"} =>
        \A e \in Range(Envs) : \A file \in Range(Glob(tfFiles, GlobDir(e))) :
            TfContent(file).parses =>
                \A t \in 1..Len(TfContent(file).terraform) :
                    \A r \in 1..Len(TfContent(file).terraform[t]) :
                        \A attr \in Range(TfContent(file).terraform[t][r]) :
                            attr.isObject => <<attr.source, attr.version>> \in requirements

\* C6: a second run of the two passes right after a first one, the
\* environments, the registry and the outcome of each deletion being the same,
\* deletes no file.
C6_SecondRunDeletesNothing ==
    run >= 2 => (removedA = {} /\ removedB = {})

C6_Witness ==
    /\ run = 2
    /\ pc = "done"
    /\ ~viaCmd
    /\ removedBefore # {}
    /\ failedA # {}
    /\ usedProviders # {}

\* C7: when the UsedSet is not empty and no deletion failed, after Pass B (its
\* walk gone through, the pass returning nil) no
\* file with the prefix and a parsable name is left whose key is not in the
\* UsedSet; in scenario 1 (two copies of aws 3.74.0, one aws 3.70.0, 3.74.0
\* used) the run leaves the first 3.74.0 copy alone.
C7_NoUnusedLeft ==
    /\ (pc = "report" /\ passBErr = "" /\ usedProviders # {} /\ failedB = {}) =>
            \A f \in cache :
                /\ PassBParsable(FileAt(f).filename)
                        => PassBKey(FileAt(f).filename) \in usedProviders
                /\ FileAt(f).conventional => ConvKey(f) \in usedProviders
    /\ (/\ pc = "report"
        /\ passBErr = ""
        /\ run = 1
        /\ cache \cup removedA \cup removedB = {1, 2, 4}
        /\ failedA = {} /\ failedB = {}
        /\ usedProviders = {Key3740})
            => (cache = {2} /\ removedA = {4} /\ removedB = {1})

C7_Witness ==
    /\ pc = "report"
    /\ passBErr = ""
    /\ run = 1
    /\ cache \cup removedA \cup removedB = {1, 2, 4}
    /\ failedA = {} /\ failedB = {}
    /\ usedProviders = {Key3740}

\* C8: for a valid constraint and the registry's valid versions,
\* resolveProviderVersion returns a greatest version satisfying the constraint,
\* as the registry wrote it, and fails with NoMatchingVersion exactly when no
\* version satisfies it; ">= 4.0, < 5.0" over 3.9.0, 4.2.0, 4.5.1, 5.0.0 is 4.5.1.
C8_LatestSatisfying ==
    (/\ pc = "returned"
     /\ getProviderAvailableVersions(registry, query.source).err = ""
     /\ ValidConstraint(query.constraint)) =>
        LET valid == getProviderAvailableVersions(registry, query.source).versions
            cs == NewConstraint(query.constraint)
            sat == {i \in 1..Len(valid) : Check(cs, valid[i])}
        IN  /\ (sat = {}) <=> (result.err = "NoMatchingVersion")
            /\ sat # {} =>
                  /\ result.err = ""
                  /\ \E i \in sat :
                        /\ valid[i].original = result.version
                        /\ \A j \in sat : Compare(valid[j], valid[i]) <= 0
            /\ (Response(registry, <<"aws">>).versions = <<V390, V420, V451, V500>>
                    /\ query.constraint = Range4) => result.version = V451

C8_Witness ==
    /\ pc = "returned"
    /\ query = [source |-> HashicorpAws, constraint |-> Range4]
    /\ Response(registry, <<"aws">>) = [status |-> 200, versions |-> <<V390, V420, V451, V500>>]
    /\ result = [err |-> "", version |-> V451]

\* C11: resolveProviderVersion fails with UnsupportedSourceFormat when the
\* source split on "/" has not exactly two parts, and with UnsupportedPublisher
\* when it has two and the first is not hashicorp; in both cases no query was
\* sent to the registry.
C11_RejectedBeforeQuery ==
    pc = "returned" =>
        LET parts == Split(query.source, <<"/">>)
        IN  /\ Len(parts) # 2 =>
                  (result.err = "UnsupportedSourceFormat" /\ requests = <<>>)
            /\ (Len(parts) = 2 /\ parts[1] # <<"hashicorp">>) =>
                  (result.err = "UnsupportedPublisher" /\ requests = <<>>)

C11_Witness ==
    /\ pc = "returned"
    /\ query.source = <<"acme", "/", "aws">>
    /\ Response(registry, <<"aws">>).status = 200
    /\ Len(Response(registry, <<"aws">>).versions) = 2
    /\ result.err = "UnsupportedPublisher"
    /\ requests = <<>>

\* the registry's answer without the strings that are not versions
ValidOnly(reg) ==
    [p \in DOMAIN reg |->
        [status |-> reg[p].status, versions |-> SelectSeq(reg[p].versions, ValidVersion)]]

\* C12: the strings of the registry's answer that are not versions are dropped
\* and the resolution does not fail on them: resolveProviderVersion returns
\* what it returns on the answer's valid strings alone.
C12_InvalidVersionsDropped ==
    pc = "returned" =>
        result = resolveProviderVersion(ValidOnly(registry), query.source, query.constraint)

C12_Witness ==
    /\ pc = "returned"
    /\ query = [source |-> HashicorpAws, constraint |-> Range4]
    /\ Response(registry, <<"aws">>) =
            [status |-> 200, versions |-> <<V420, <<"beta">>, V451>>]
    /\ result = [err |-> "", version |-> V451]

\* C13: when the config directory of the base directory is missing or cannot
\* be read, cleanUnusedProviders returns the error of the enumeration; it builds
\* no UsedSet, walks no cache and deletes no file.
C13_EnumerationFailureIsFatal ==
    configRoot # "ok" =>
        /\ pc \notin {"collect", "walkB"}
        /\ pc = "report" => passBErr = "failed to list environments"
        /\ usedProviders = {} /\ requirements = {}
        /\ removedB = {} /\ failedB = {}

C13_Witness ==
    /\ pc = "report"
    /\ configRoot = "missing"
    /\ passBErr = "failed to list environments"
    /\ removedA # {}
    /\ \E f \in cache : PassBParsable(FileAt(f).filename)

\* C14: whenever the cache directory exists, cleanupCmd attempts both passes:
\* a run on a cache that is a directory starts Pass A, and Pass A, failed or
\* not, is followed by Pass B.
C14_BothPassesAttempted ==
    [][/\ (viaCmd' /\ run' = run + 1 /\ cacheKind = "dir") => pc' = "passA"
       /\ (pc = "passA" /\ pc' # "passA") => pc' = "passB"]_vars

\* C15: in both passes a deletion that fails does not end the walk and is not
\* an error of the pass: the step that fails goes on to the next file, and when
\* the pass has returned nil every file it had to delete is deleted, but those
\* os.Remove failed on: no later duplicate of a key met before (Pass A), no
\* file whose key is not in the UsedSet (Pass B), is left.
C15_DeletionFailureContinues ==
    /\ [](pc = "passB" =>
            \A f \in cache \ failedA :
                PassAParsable(FileAt(f).filename) =>
                    ~\E g \in cache \cup removedA :
                        /\ g < f
                        /\ PassAParsable(FileAt(g).filename)
                        /\ PassAKey(FileAt(g).filename) = PassAKey(FileAt(f).filename))
    /\ []((pc = "report" /\ passBErr = "" /\ usedProviders # {}) =>
            \A f \in cache \ failedB :
                PassBParsable(FileAt(f).filename) =>
                    PassBKey(FileAt(f).filename) \in usedProviders)
    /\ [][(failedA' \ failedA # {} => (pc' = "passA" /\ todo' = Tail(todo)))
            /\ (failedB' \ failedB # {} =>
                    (pc' = "walkB" /\ todo' = Tail(todo) /\ passBErr' = ""))]_vars

C15_Witness ==
    /\ pc = "report"
    /\ passBErr = ""
    /\ failedA = {4} /\ removedA = {5}
    /\ failedB = {4} /\ removedB = {2}

\* the blocks collectUsedProviders has gone through so far
BlocksDone ==
    LET all == AllBlocks(tfFiles, Envs)
    IN  SubSeq(all, 1, Len(all) - Len(work))

\* the requirements of a set of blocks
ReqsOf(blocks) == UNION {BlockRequirements(BlockOf(b)) : b \in blocks}

\* the keys of the requirements that resolve, among a set of requirements
KeysOf(reqs) ==
    UNION {LET res == resolveProviderVersion(registry, q[1], q[2])
           IN  IF res.err = "" THEN {Sprintf(extractProviderShortName(q[1]), res.version)}
               ELSE {} : q \in reqs}

ErrorsOf(reqs) == {resolveProviderVersion(registry, q[1], q[2]).err : q \in reqs}

\* C10: a requirement whose resolution fails (registry error, unsupported
\* source format or publisher, invalid constraint, no matching version) adds no
\* key; the keys added before it stay, and all the other requirements of the
\* same and of later files and environments are resolved and added: while
\* collectUsedProviders runs, and when it has gone through every block, the
\* UsedSet is the keys of the resolvable requirements gone through, and the
\* collection ends only with every block gone through.
C10_FailureSkipsOneRequirement ==
    /\ pc = "collect" =>
          /\ requirements = ReqsOf(Range(BlocksDone))
          /\ usedProviders = KeysOf(requirements)
    /\ pc = "walkB" => (work = <<>> /\ usedProviders # {})

C10_Witness ==
    /\ pc = "report"
    /\ {"RegistryError", "UnsupportedSourceFormat", "UnsupportedPublisher",
        "InvalidConstraint", "NoMatchingVersion"} \subseteq ErrorsOf(requirements)
    /\ usedProviders = {Key3740, Key451}

\* the keys collectUsedProviders draws from a file that parses: those of the
\* resolvable (source, version) pairs of its required_providers blocks that
\* hold the attributes source and version and no other
FileKeys(file) ==
    LET tf == TfContent(file).terraform
        keys(block) ==
            IF AttrNames(block) = {"source", "version"}
            THEN KeysOf({<<AttrOf(block, "source").value, AttrOf(block, "version").value>>})
            ELSE {}
    IN  UNION {UNION {keys(tf[t][r]) : r \in 1..Len(tf[t])} : t \in 1..Len(tf)}

\* C16: a file that does not parse is passed over and the extraction goes on:
\* when collectUsedProviders has returned, the keys of every file that parses,
\* in the same environment and in the others, are in the UsedSet.
C16_ParseFailureSkipsOneFile ==
    (pc = "walkB" \/ (pc = "report" /\ configRoot = "ok" /\ Envs # <<>>)) =>
        \A e \in Range(Envs) : \A file \in Range(Glob(tfFiles, GlobDir(e))) :
            TfContent(file).parses => FileKeys(file) \subseteq usedProviders

C16_Witness ==
    /\ pc = "walkB"
    /\ tfFiles = {[dir |-> GlobDir("dev"), name |-> "bad.tf"],
                  [dir |-> GlobDir("prod"), name |-> "main.tf"]}
    /\ usedProviders = {Key3740}

\* the required_providers blocks of the files that parse among those
\* collectUsedProviders reads, but the blocks Body.Content rejects
BlocksRead ==
    UNION {UNION {LET tf == TfContent(file).terraform
                  IN  UNION {{tf[t][r] : r \in 1..Len(tf[t])} : t \in 1..Len(tf)}
                    : file \in {n \in Range(Glob(tfFiles, GlobDir(e))) : TfContent(n).parses}}
            : e \in Range(Envs)}

EnvKeys(e) ==
    UNION {FileKeys(file) :
            file \in {n \in Range(Glob(tfFiles, GlobDir(e))) : TfContent(n).parses}}

\* C18: an environment in which no .tf file is found gives no key and does not
\* end the run: when collectUsedProviders has returned, the UsedSet is the keys
\* of the environments that have files, those after an environment without
\* files included.
C18_EmptyEnvironmentSkipped ==
    (pc = "walkB" \/ (pc = "report" /\ configRoot = "ok" /\ Envs # <<>>)) =>
        usedProviders =
            UNION {EnvKeys(e) : e \in {x \in Range(Envs) : Glob(tfFiles, GlobDir(x)) # <<>>}}

C18_Witness ==
    /\ pc = "walkB"
    /\ Envs = <<"dev", "prod">>
    /\ Glob(tfFiles, GlobDir("dev")) = <<>>
    /\ Glob(tfFiles, GlobDir("prod")) = <<"main.tf", "multi.tf">>
    /\ usedProviders = {Key3740, Key451}

\* C19: a cache file whose name does not begin with terraform-provider-
\* (random-file.txt, the cache path itself when it is a file) is never handed
\* to os.Remove, by Pass A or by Pass B, in any run.
C19_UnprefixedNeverDeleted ==
    \A f \in removedA \cup removedB \cup removedBefore \cup failedA \cup failedB :
        SubSeq(FileAt(f).filename, 1, 1) = <<"terraform-provider-">>

C19_Witness ==
    /\ pc = "report"
    /\ passBErr = ""
    /\ {6, 8} \subseteq cache
    /\ removedB # {}
    /\ FileAt(6).filename = <<"random-file", ".", "txt">>

\* the files of a cache that come after a file of the same Pass A key in the
\* walk's order
LaterCopies(files) ==
    {f \in files :
        /\ PassAParsable(FileAt(f).filename)
        /\ \E g \in files :
              /\ g < f
              /\ PassAParsable(FileAt(g).filename)
              /\ PassAKey(FileAt(g).filename) = PassAKey(FileAt(f).filename)}

\* C20: what Pass A deletes depends on the cache and the walk's order alone:
\* when it has returned without a deletion failing, it has removed the later
\* copies of each key of the cache it started on, whatever the environments
\* and their configuration are, and whether or not the key is referenced.
C20_DuplicatesIndependentOfEnvironments ==
    (pc = "passB" /\ failedA = {}) => removedA = LaterCopies(cache \cup removedA)

C20_Witness ==
    /\ pc = "passB"
    /\ failedA = {}
    /\ removedA = {4}
    /\ 2 \in cache
    /\ [dir |-> GlobDir("dev"), name |-> "main.tf"] \in tfFiles
    /\ "dev" \in configDirs

\* C21: a run changes nothing but the cache, and the cache only by removing
\* files: no step adds a file to the cache or changes what lies at the cache
\* path, and the config directory, the environments' directories and their
\* .tf files stay as they are.
C21_OnlyRemovesCacheFiles ==
    [][/\ cache' \subseteq cache
       /\ cache \ cache' \subseteq (removedA' \cup removedB')
       /\ UNCHANGED <<cacheKind, configRoot, configDirs, tfFiles>>]_vars

C21_Witness ==
    /\ pc = "done"
    /\ removedA # {} /\ removedB # {}
    /\ cache # {}
    /\ tfFiles # {}

\* C22: a run of the cleanup command ends before both passes have gone
\* through only when the cache cannot be read or the config root cannot be
\* read; on a missing cache no pass runs, no file is deleted and the run ends
\* as a failure.
C22_OnlyFatalConditionsEndRun ==
    (pc = "done" /\ run >= 1 /\ viaCmd) =>
        /\ cacheKind = "missing" =>
              /\ removedA = {} /\ removedB = {}
              /\ "Cleanup completed successfully." \notin printed
              /\ ExitStatus(printed) # 0
        /\ ("Cleanup completed successfully." \notin printed \/ passBErr # "") =>
              (cacheKind = "missing" \/ unreadable # {} \/ configRoot # "ok")

\* C23: the two passes of one run never overlap: while Pass A walks, Pass B
\* has enumerated, resolved and deleted nothing; Pass B enumerates and resolves
\* only with Pass A's walk gone through; a file is deleted by Pass A only
\* during Pass A's walk and by Pass B only during Pass B's walk.
C23_PassesNeverOverlap ==
    /\ [](pc = "passA" =>
            /\ usedProviders = {} /\ requirements = {} /\ work = <<>>
            /\ removedB = {} /\ failedB = {})
    /\ [](pc \in {"passB", "collect"} => todo = <<>>)
    /\ [][(removedA' \ removedA # {} \/ failedA' \ failedA # {}
                \/ uniqueProviders' \ uniqueProviders # {})
                    => (pc = "passA" /\ pc' = "passA")]_vars
    /\ [][(removedB' \ removedB # {} \/ failedB' \ failedB # {})
                    => (pc = "walkB" /\ pc' = "walkB")]_vars

C23_Witness ==
    /\ pc = "walkB"
    /\ removedA # {}
    /\ removedB # {}
    /\ todo # <<>>

\* the cleanup invocations that are between their first and their last step
Running == {p \in Procs : procs[p].cmd = "cleanup" /\ procs[p].pc \in {"passA", "passB", "walkB"}}

\* C24: at most one run at a time: a cleanup invocation starts its walk of the
\* cache only when the environment's .lock file does not exist and no other
\* cleanup invocation is running.
C24_OneRunAtATime ==
    [][\A p \in Procs :
          (procs[p].cmd = "cleanup" /\ procs[p].pc = "start" /\ procs'[p].pc = "passA")
              => (~lockFile /\ Running = {})]_vars

\* C25: the lock command is a mutual exclusion: an invocation reports
\* "Environment locked successfully." only when the environment was not locked
\* when it took the lock (of two invocations at the same time on an unlocked
\* environment at most one does); on a locked environment lock fails and
\* leaves the lock file, and on an unlocked one unlock fails.
C25_LockIsExclusive ==
    [][\A p \in Procs :
          /\ ("Environment locked successfully." \in procs'[p].out \ procs[p].out)
                => ~lockFile
          /\ (procs[p].cmd = "lock" /\ procs[p].pc = "start" /\ lockFile
                    /\ procs'[p] # procs[p])
                => (lockFile' /\ procs'[p].out = {"Environment is already locked."})
          /\ (procs[p].cmd = "unlock" /\ procs[p].pc = "start" /\ ~lockFile
                    /\ procs'[p] # procs[p])
                => procs'[p].out = {"Environment is not locked."}]_vars

\* C26: each pass ends with a report of its counts: the number of files it
\* removed and the number of deletions that failed.
C26_ReportedCountsMatch ==
    /\ pc = "passB" =>
          Summary("A", removedA, failedA) = <<Cardinality(removedA), Cardinality(failedA)>>
    /\ (pc = "report" /\ passBErr = "") =>
          Summary("B", removedB, failedB) = <<Cardinality(removedB), Cardinality(failedB)>>

\* C27: on every cache file named by the convention the parsers of the two
\* passes give the same key, the name_version key of the UsedSet.
C27_ParsersAgree ==
    \A f \in cache :
        FileAt(f).conventional =>
            /\ PassAParsable(FileAt(f).filename) /\ PassBParsable(FileAt(f).filename)
            /\ PassAKey(FileAt(f).filename) = PassBKey(FileAt(f).filename)
            /\ PassBKey(FileAt(f).filename) = ConvKey(f)

\* C28: Pass A never empties a key: during the pass and when it has returned,
\* every key it computes for a file the cache held when the pass began still
\* has a file in the cache, whatever deletions failed.
C28_PassANeverEmptiesKey ==
    pc \in {"passA", "passB"} =>
        \A f \in cache \cup removedA :
            PassAParsable(FileAt(f).filename) =>
                \E g \in cache :
                    /\ PassAParsable(FileAt(g).filename)
                    /\ PassAKey(FileAt(g).filename) = PassAKey(FileAt(f).filename)

C28_Witness ==
    /\ pc = "passB"
    /\ removedA = {5}
    /\ failedA = {4}
    /\ cache = {2, 4}

\* C29: the cleanup command prints "Cleanup completed successfully." only
\* when both passes returned without error.
C29_SuccessOnlyWithoutError ==
    (pc = "done" /\ "Cleanup completed successfully." \in printed) =>
        (passBErr = "" /\ "Error cleaning unused providers" \notin printed)

\* the cache the concurrent runs began on
CacheBefore == cache \cup UNION {procs[p].removed : p \in Procs}

\* the conventionally named .zip artifacts of a key among a set of files
ZipCopies(files, key) ==
    {f \in files : /\ FileAt(f).conventional
                   /\ HasSuffix(FileAt(f).filename, ZipExt)
                   /\ ConvKey(f) = key}

=============================================================================
